---- MODULE Spec2Model ----
(***************************************************************************)
(* Batch text-to-speech pipeline of functions.py: the status poller        *)
(* (get_task_status), the per-file task (process_txt_file and the helpers  *)
(* it calls) and the batch runner (process_list_of_txt_files), over an     *)
(* abstract output directory and success-record log.                       *)
(***************************************************************************)
EXTENDS Integers, Sequences, FiniteSets, TLC

(***************************************************************************)
(* Values                                                                  *)
(***************************************************************************)
\* Python's None
None == "None"

\* file ids the service can hand out
FileIds == {"f1", "f2"}

\* get_task_status: max_retries = 100, retry_delay_seconds = 5
max_retries == 100
retry_delay_seconds == 5

\* the job states of the service; anything that is not terminal is "Processing"
TerminalStatus == {"Success", "Failed", "Expired"}
Statuses == TerminalStatus \cup {"Processing"}

\* What one requests.get + response.json() of the status endpoint can give:
\*   timeout   - requests.exceptions.Timeout
\*   error     - any other exception of the request or of the JSON parse
\*   nonobject - a JSON body that is not an object (a list, a number, ...)
\*   body      - a JSON object; code is base_resp.status_code (0 or not 0),
\*               status is its status and id its file_id (None when missing)
Resp(kind, code, status, id) ==
    [kind |-> kind, code |-> code, status |-> status, id |-> id]
NoResp == Resp("none", 0, "Processing", None)
StatusBodies ==
    {Resp("body", c, s, f) : c \in {0, 1}, s \in Statuses, f \in FileIds \cup {None}}
StatusResponses ==
    {Resp("timeout", 0, "Processing", None),
     Resp("error", 0, "Processing", None),
     Resp("nonobject", 0, "Processing", None)} \cup StatusBodies

\* the answers the except clauses of lines 237-244 and the else branch of
\* lines 264-267 take: a timeout, any other exception of the request or of the
\* JSON parse, an application code other than 0
Transient(r) == r.kind \in {"timeout", "error"} \/ (r.kind = "body" /\ r.code # 0)
TransientKind(r) == IF r.kind = "body" THEN "code" ELSE r.kind

\* a status the poller reads: the body is an object and its application code is 0
IsTerminal(r) == r.kind = "body" /\ r.code = 0 /\ r.status \in TerminalStatus

(***************************************************************************)
(* get_task_status, one iteration of its retry loop                        *)
(***************************************************************************)
\* the state of one call: i is retry_count, requests counts the status
\* requests made so far and waited the seconds spent in time.sleep; status and
\* file_id are the local variables of lines 249-250 ("none" and None before
\* they are first set) and said
\* the closing message: "failed" (line 258), "expired" (line 261),
\* "exhausted" (line 272) or "none"
PollStart ==
    [i |-> 0, requests |-> 0, waited |-> 0, state |-> "loop", result |-> None,
     status |-> "none", file_id |-> None, said |-> "none"]

\* time.sleep(retry_delay_seconds) and the next turn of the for loop; the loop
\* is left, and None returned, after max_retries turns
PollSleep(st) ==
    [st EXCEPT !.i = st.i + 1,
               !.waited = st.waited + retry_delay_seconds,
               !.state = IF st.i + 1 >= max_retries THEN "returned" ELSE "loop",
               !.said = IF st.i + 1 >= max_retries THEN "exhausted" ELSE st.said,
               !.result = None]

PollReturn(st, v) == [st EXCEPT !.state = "returned", !.result = v]

\* lines 257-262: the message of the branch, then return None
PollFail(st, status) ==
    [PollReturn(st, None) EXCEPT !.said = IF status = "Failed" THEN "failed" ELSE "expired"]

\* lines 249-250
ReadStatus(st, r) == [st EXCEPT !.status = r.status, !.file_id = r.id]

\* the loop body with the Success branch left out
PollStepIgnoreSuccess(st, r) ==
    LET s1 == [st EXCEPT !.requests = st.requests + 1]
    IN  IF r.kind = "nonobject" THEN [s1 EXCEPT !.state = "raised"]
        ELSE IF IsTerminal(r) /\ r.status # "Success"
             THEN PollReturn(s1, None)
             ELSE PollSleep(s1)

\* the loop body with Expired taken for a status to wait on
PollStepRetryExpired(st, r) ==
    LET s1 == [st EXCEPT !.requests = st.requests + 1]
    IN  IF r.kind = "nonobject" THEN [s1 EXCEPT !.state = "raised"]
        ELSE IF IsTerminal(r) /\ r.status = "Success"
             THEN PollReturn(ReadStatus(s1, r), r.id)
        ELSE IF IsTerminal(r) /\ r.status = "Failed"
             THEN PollFail(ReadStatus(s1, r), r.status)
        ELSE PollSleep(s1)

\* the loop body with an exception of the request ending the call
PollStepErrorEnds(st, r) ==
    LET s1 == [st EXCEPT !.requests = st.requests + 1]
    IN  IF r.kind = "nonobject" THEN [s1 EXCEPT !.state = "raised"]
        ELSE IF r.kind = "error" THEN PollReturn(s1, None)
        ELSE IF IsTerminal(r) /\ r.status = "Success"
             THEN PollReturn(ReadStatus(s1, r), r.id)
        ELSE IF IsTerminal(r) THEN PollFail(ReadStatus(s1, r), r.status)
        ELSE PollSleep(s1)

\* the loop body with `continue` and no sleep after a timeout
PollStepBusyTimeout(st, r) ==
    LET s1 == [st EXCEPT !.requests = st.requests + 1]
    IN  IF r.kind = "nonobject" THEN [s1 EXCEPT !.state = "raised"]
        ELSE IF r.kind = "timeout"
             THEN [PollSleep(s1) EXCEPT !.waited = s1.waited]
        ELSE IF IsTerminal(r) /\ r.status = "Success"
             THEN PollReturn(ReadStatus(s1, r), r.id)
        ELSE IF IsTerminal(r) THEN PollFail(ReadStatus(s1, r), r.status)
        ELSE PollSleep(s1)

\* lines 233-270: one status request and what the loop body does with it
PollStep(st, r) ==
    LET s1 == [st EXCEPT !.requests = st.requests + 1]
    IN  CASE r.kind \in {"timeout", "error"} -> PollSleep(s1)
          [] r.kind = "nonobject" -> [s1 EXCEPT !.state = "raised"]
          [] r.kind = "body" /\ r.code = 0 /\ r.status = "Success" ->
                 PollReturn(ReadStatus(s1, r), r.id)
          [] r.kind = "body" /\ r.code = 0 /\ r.status \in {"Failed", "Expired"} ->
                 PollFail(ReadStatus(s1, r), r.status)
          [] r.kind = "body" /\ r.code = 0 -> PollSleep(ReadStatus(s1, r))
          [] OTHER -> PollSleep(s1)

\* the whole call on a script of responses (script[k] answers the k-th request)
RECURSIVE PollRun(_, _)
PollRun(st, script) ==
    IF st.state # "loop" \/ script = <<>> THEN st
    ELSE PollRun(PollStep(st, Head(script)), Tail(script))

get_task_status(script) == PollRun(PollStart, script)

(***************************************************************************)
(* The requests of a batch and the output directory                        *)
(***************************************************************************)
\* the model's bounds: requests per batch, and the largest max_workers tried
NumTasks == 2
MaxWorkers == 2

\* the three files of the end-to-end scenario, by base name
Scenario == <<"a", "b", "c">>

\* request slots; a batch fills the first len(files_and_settings_list) of them
MaxTasks == IF NumTasks > Len(Scenario) THEN NumTasks ELSE Len(Scenario)
Tasks == 1..MaxTasks

\* txt_file_name_no_ext of a request: the file name without directory and
\* extension, so two requests from different folders can share it
BaseNames == {"a", "b", "c"}

\* line 698: temp_processing_dir_for_file, and line 583: final_target_dir_path,
\* both directly under output_dir; Suffixed is the name the specification gives
\* to a collision-avoiding final directory
WsName(b) == b \o "_temp_processing"
FinalName(b) == b
Suffixed(b) == b \o "_1"
Names == UNION {{FinalName(b), WsName(b), Suffixed(b)} : b \in BaseNames}

\* Content is named by where it comes from: t > 0 is what the job of task t
\* produced, 0 is whatever an earlier run left behind.
Tokens == 0..MaxTasks

\* One directory directly under output_dir:
\*   tar  the archive <base>.tar in it: {} or the token of its content
\*   raw  the top-level directories extracted into it and not renamed
\*   sub  the content held under the name <base> (in a workspace: the renamed
\*        directory; in a final directory: the placed content)
Dir(tar, raw, sub) == [exists |-> TRUE, tar |-> tar, raw |-> raw, sub |-> sub]
Absent == [exists |-> FALSE, tar |-> {}, raw |-> {}, sub |-> {}]
EmptyDir == Dir({}, {}, {})

\* What a function hands back: a value, or an exception leaving it
Ret(v) == [raised |-> FALSE, value |-> v]
Raise == [raised |-> TRUE, value |-> None]

(***************************************************************************)
(* The network calls of one task, as functions of the service's answer     *)
(***************************************************************************)
\* answers to upload, submit and metadata lookup: Resp(kind, code, _, id)
\* where id is file.file_id, task_id or file.download_url (None when missing)
Answers ==
    {Resp("timeout", 0, "Processing", None),
     Resp("error", 0, "Processing", None),
     Resp("nonobject", 0, "Processing", None),
     Resp("body", 1, "Processing", None),
     Resp("body", 0, "Processing", None),
     Resp("body", 0, "Processing", "f1")}

\* lines 125-164: the whole body is inside try, and except Exception ends it
upload_text_file(r) ==
    IF r.kind = "body" /\ r.code = 0 /\ r.id # None THEN Ret(r.id) ELSE Ret(None)

\* create_speech_task answering a task id of its own when the body has none
create_speech_task_any_id(r) ==
    CASE r.kind \in {"timeout", "error"} -> Ret(None)
      [] r.kind = "nonobject" -> Raise
      [] r.kind = "body" /\ r.code = 0 -> Ret("f1")
      [] OTHER -> Ret(None)

\* lines 200-219: response_data.get is outside the try block
create_speech_task(r) ==
    CASE r.kind \in {"timeout", "error"} -> Ret(None)
      [] r.kind = "nonobject" -> Raise
      [] r.kind = "body" /\ r.code = 0 -> Ret(r.id)
      [] OTHER -> Ret(None)

\* lines 290-348, first half: the metadata lookup; the value is download_url
FileMetadata(r) ==
    CASE r.kind \in {"timeout", "error"} -> Ret(None)
      [] r.kind = "nonobject" -> Raise
      [] r.kind = "body" /\ r.code = 0 -> Ret(r.id)
      [] OTHER -> Ret(None)

\* How the streamed download of lines 318-328 can go:
\*   ok       every chunk is written
\*   timeout  requests.exceptions.Timeout (handler of lines 329-332)
\*   http     raise_for_status or another RequestException before the file
\*            is opened (lines 333-336)
\*   partial  an exception of iter_content after chunks were written
\*   open     open(file_path, 'wb') fails (lines 337-340)
StreamOutcomes == {"ok", "timeout", "http", "partial", "open"}

\* open(file_path, 'wb') and the chunks written: <base>.tar holds what job k
\* sent, whatever was there before; os.remove(file_path) when it exists
WriteFile(d, k) == [d EXCEPT !.tar = {k}]
RemoveFile(d) == [d EXCEPT !.tar = {}]

\* (path, url) as download_file returns them, or the exception leaving it,
\* with save_dir as it is then
DownloadReturn(path, url, d) == [raised |-> FALSE, path |-> path, url |-> url, dir |-> d]
DownloadRaised(d) == [raised |-> TRUE, path |-> None, url |-> None, dir |-> d]

\* download_file leaving what was written when the stream breaks midway
download_file_keeps_partial(d, meta, mk, stream, k) ==
    LET url == FileMetadata(meta)
        d1 == IF d.exists THEN d ELSE EmptyDir
    IN  IF url.raised THEN DownloadRaised(d)
        ELSE IF url.value = None THEN DownloadReturn(None, None, d)
        ELSE IF ~d.exists /\ ~mk THEN DownloadReturn(None, url.value, d)
        ELSE IF stream = "ok" THEN DownloadReturn("tar", url.value, WriteFile(d1, k))
        ELSE IF stream = "partial" THEN DownloadReturn(None, url.value, WriteFile(d1, k))
        ELSE DownloadReturn(None, url.value, RemoveFile(d1))

\* lines 276-348: d is save_dir, meta the answer to the metadata request, mk
\* whether os.makedirs(save_dir) succeeds when it is needed, stream how the
\* download goes and k the job whose archive is served
download_file(d, meta, mk, stream, k) ==
    LET url == FileMetadata(meta)
        d1 == IF d.exists THEN d ELSE EmptyDir
    IN  CASE url.raised -> DownloadRaised(d)
          [] ~url.raised /\ url.value = None -> DownloadReturn(None, None, d)
          [] ~url.raised /\ url.value # None /\ ~d.exists /\ ~mk ->
                 DownloadReturn(None, url.value, d)
          [] OTHER ->
                 CASE stream = "ok" -> DownloadReturn("tar", url.value, WriteFile(d1, k))
                   [] stream = "partial" ->
                          DownloadReturn(None, url.value, RemoveFile(WriteFile(d1, k)))
                   [] OTHER -> DownloadReturn(None, url.value, RemoveFile(d1))

\* what an answer to the submit request amounts to
AnswerKind(r) ==
    CASE r.kind # "body" -> r.kind
      [] r.kind = "body" /\ r.code # 0 -> "code"
      [] r.kind = "body" /\ r.code = 0 /\ r.id = None -> "noid"
      [] OTHER -> "ok"

\* what a finished poll met
PollKind(st) ==
    CASE st.state = "raised" -> "nonobject"
      [] st.state # "raised" /\ st.said # "none" -> st.said
      [] st.state # "raised" /\ st.said = "none" /\ st.status = "Success"
         /\ st.file_id = None -> "noid"
      [] OTHER -> "ok"

\* the scripts of status answers the batch model tries
Processing == Resp("body", 0, "Processing", None)
StaysProcessing == [k \in 1..max_retries |-> Processing]
PollScripts ==
    {<<Resp("body", 0, "Success", "f1")>>,
     <<Processing, Resp("timeout", 0, "Processing", None),
       Resp("body", 1, "Success", "f2"), Resp("body", 0, "Success", "f2")>>,
     <<Resp("body", 0, "Success", None)>>,
     <<Resp("body", 0, "Failed", None)>>,
     <<Processing, Resp("body", 0, "Expired", None)>>,
     <<Processing, Resp("nonobject", 0, "Processing", None)>>,
     StaysProcessing}

\* what get_task_status leaves for each of them
PollResults == {get_task_status(script) : script \in PollScripts}

(***************************************************************************)
(* Filesystem operations on the entries of output_dir                      *)
(***************************************************************************)
\* shutil.rmtree(path, ignore_errors=True) and os.makedirs(path, exist_ok=True)
rmtree(fs, n) == [fs EXCEPT ![n] = Absent]
makedirs(fs, n) == IF fs[n].exists THEN fs ELSE [fs EXCEPT ![n] = EmptyDir]

\* What the downloaded archive holds at its top level, and which filesystem
\* call of the extraction fails, as the batch meets them
ArchiveKinds == {"onedir", "loose", "corrupt"}
ExtractFaults == {"none", "listdir", "move"}

\* Every archive extract_and_rename is called with on its own: also two
\* top-level directories, one top-level directory that bears new_dir_name
\* already, nothing at all, and an archive that opens but fails while it is
\* read; and every call that can fail: also the rmtree of line 398 and the
\* os.remove of line 411
TarKinds == ArchiveKinds \cup {"twodirs", "named", "empty", "ioerror"}
TarFaults == ExtractFaults \cup {"rmtree", "remove"}

\* the content of the second top-level directory of a "twodirs" archive
Second == MaxTasks + 1

\* tar_path: the archive <base>.tar of extract_dir when out is empty, else a
\* file outside extract_dir whose content is out
Archive(d, out) == IF out = {} THEN d.tar ELSE out

\* lines 356-357: extractall adds the archive's top-level directories to
\* extract_dir; a directory named new_dir_name lands in the one that is there
ExtractAll(d, out, kind) ==
    [d EXCEPT !.exists = TRUE,
              !.raw = @ \cup (CASE kind = "onedir" -> Archive(d, out)
                                [] kind = "twodirs" -> Archive(d, out) \cup {Second}
                                [] OTHER -> {}),
              !.sub = @ \cup (IF kind = "named" THEN Archive(d, out) ELSE {})]

\* line 378: extract_dir holds a regular file (the archive itself counts)
AnyFile(d, kind) == d.tar # {} \/ kind = "loose"

\* the directories os.listdir(extract_dir) shows after extractall (lines
\* 368-369): the raw top-level directories, and the target when the directory
\* extract_dir/new_dir_name is there
RawDir(k) == [what |-> "raw", token |-> k]
TargetDir == [what |-> "target", token |-> 0]
NoDir == [what |-> "nothing", token |-> 0]
ListedDirs(d, out, kind) ==
    {RawDir(k) : k \in ExtractAll(d, out, kind).raw}
        \cup (IF ExtractAll(d, out, kind).sub # {} THEN {TargetDir} ELSE {})
Picks(d, out, kind) ==
    IF ListedDirs(d, out, kind) = {} THEN {NoDir} ELSE ListedDirs(d, out, kind)

\* the result of extract_and_rename: the path returned ("target" for
\* extract_dir/new_dir_name, "workdir" for extract_dir, None), whether an
\* exception left it, the directory it leaves, and whether it deleted tar_path
Extracted(path, raised, d, deleted) ==
    [ok |-> path # None, path |-> path, raised |-> raised, dir |-> d,
     deleted |-> deleted]

\* lines 410-414: os.remove(tar_path); a failure is printed
TarDeletedNever(fault) == FALSE
TarDeleted(fault) == fault # "remove"

\* lines 385-408 when the directory taken is extract_dir itself: the target
\* extract_dir/new_dir_name is no directory (it would have been listed), so
\* line 403 moves extract_dir into itself; shutil.move raises and None is returned
LooseRoot(d) == Extracted(None, FALSE, d, FALSE)

\* shutil.rmtree of extract_dir/new_dir_name: lines 364-365 after a failed
\* read, line 398 before the move
StaleRemoved(d) == [d EXCEPT !.sub = {}]

\* lines 350-416, on extract_dir d; pick is the directory that os.listdir
\* puts first
extract_and_rename(d, out, kind, fault, pick) ==
    LET d1 == ExtractAll(d, out, kind)
        Done(dd) ==
            IF TarDeleted(fault)
            THEN Extracted("target", FALSE,
                           [dd EXCEPT !.tar = IF out = {} THEN {} ELSE @], TRUE)
            ELSE Extracted("target", FALSE, dd, FALSE)
    IN  CASE \* tarfile.open: FileNotFoundError, the generic handler clears the target
             Archive(d, out) = {} -> Extracted(None, FALSE, StaleRemoved(d), FALSE)
          \* tarfile.ReadError, lines 359-361
          [] Archive(d, out) # {} /\ kind = "corrupt" -> Extracted(None, FALSE, d, FALSE)
          \* another exception while reading, lines 362-366
          [] Archive(d, out) # {} /\ kind = "ioerror" ->
                 Extracted(None, FALSE, StaleRemoved([d EXCEPT !.exists = TRUE]), FALSE)
          \* os.listdir is outside every try block
          [] Archive(d, out) # {} /\ kind \notin {"corrupt", "ioerror"}
             /\ fault = "listdir" -> Extracted(None, TRUE, d1, FALSE)
          \* no directory: extract_dir itself when it holds a file (lines
          \* 378-380), else nothing was found (lines 381-383)
          [] Archive(d, out) # {} /\ kind \notin {"corrupt", "ioerror"}
             /\ fault # "listdir" /\ pick = NoDir ->
                 IF AnyFile(d1, kind) THEN LooseRoot(d1)
                 ELSE Extracted(None, FALSE, d1, FALSE)
          \* the first directory is the target already, lines 388-390
          [] Archive(d, out) # {} /\ kind \notin {"corrupt", "ioerror"}
             /\ fault # "listdir" /\ pick = TargetDir -> Done(d1)
          \* rmtree of a target that exists, then shutil.move, lines 394-408
          [] OTHER ->
                 IF d1.sub # {} /\ fault = "rmtree"
                 THEN Extracted(None, FALSE, d1, FALSE)
                 ELSE IF fault = "move"
                 THEN Extracted(None, FALSE, StaleRemoved(d1), FALSE)
                 ELSE Done([StaleRemoved(d1) EXCEPT !.raw = d1.raw \ {pick.token},
                                                    !.sub = {pick.token}])

\* lines 583-599: an existing final directory is removed before the move
ClearFinal(fs, final) == rmtree(fs, final)

\* lines 601-633 and 641-655: shutil.move of the content into final (into the
\* directory when it exists by now), then the workspace is removed
MoveToFinal(fs, ws, final) ==
    [fs EXCEPT ![final] = Dir({}, {}, fs[final].sub \cup fs[ws].sub),
               ![ws] = Absent]

(***************************************************************************)
(* Subtitles: convert_seconds_to_srt_time and json_to_srt                  *)
(***************************************************************************)
\* str() of a natural number, and the formats {:02} and {:03}
Digits == <<"0", "1", "2", "3", "4", "5", "6", "7", "8", "9">>
RECURSIVE Str(_)
Str(n) == IF n < 10 THEN Digits[n + 1] ELSE Str(n \div 10) \o Digits[(n % 10) + 1]
Pad2(n) == IF n < 10 THEN "0" \o Str(n) ELSE Str(n)
Pad3(n) == IF n < 10 THEN "00" \o Str(n) ELSE IF n < 100 THEN "0" \o Str(n) ELSE Str(n)

\* The argument `seconds` is a float; the model counts it in ticks of a tenth
\* of a millisecond, which is fine enough for both sides of every rounding
TicksPerMs == 10
TicksPerSecond == 1000 * TicksPerMs

\* line 423: round() of the fraction in milliseconds. A fraction that lies
\* half-way between two milliseconds goes to either, as the float that stands
\* for it lies above or below the half
RoundMs(frac, up) ==
    LET q == frac \div TicksPerMs
        r == frac % TicksPerMs
    IN  IF 2 * r < TicksPerMs THEN q
        ELSE IF 2 * r > TicksPerMs THEN q + 1
        ELSE IF up THEN q + 1 ELSE q

\* lines 420-423
SrtFields(x, up) ==
    [hours |-> x \div (3600 * TicksPerSecond),
     minutes |-> (x % (3600 * TicksPerSecond)) \div (60 * TicksPerSecond),
     secs |-> (x % (60 * TicksPerSecond)) \div TicksPerSecond,
     millis |-> RoundMs(x % TicksPerSecond, up)]

\* lines 424-432
CarryNever(f) == f
Carry(f) ==
    IF f.millis # 1000 THEN f
    ELSE IF f.secs + 1 # 60 THEN [f EXCEPT !.secs = @ + 1, !.millis = 0]
    ELSE IF f.minutes + 1 # 60
         THEN [f EXCEPT !.minutes = @ + 1, !.secs = 0, !.millis = 0]
    ELSE [f EXCEPT !.hours = @ + 1, !.minutes = 0, !.secs = 0, !.millis = 0]

\* line 433
FormatSrtTime(f) ==
    Pad2(f.hours) \o ":" \o Pad2(f.minutes) \o ":" \o Pad2(f.secs) \o "," \o Pad3(f.millis)

\* lines 419-433
convert_seconds_to_srt_time(x, up) == FormatSrtTime(Carry(SrtFields(x, up)))

\* A value of a record of the metadata file: a number of milliseconds, a value
\* that is no number, or no value under that key
Ms(n) == [is |-> "number", ms |-> n]
NotANumber == [is |-> "string", ms |-> 0]
NoValue == [is |-> "none", ms |-> 0]

\* One entry of the list: obj is FALSE for an entry that is no JSON object;
\* text and sentence are the strings under these keys (None when the key is
\* missing), str is FALSE when the value under the text key is no string, bom
\* is TRUE when the text begins with U+FEFF
Entry(text, sentence, tb, bt, te, et) ==
    [obj |-> TRUE, text |-> text, sentence |-> sentence, str |-> TRUE, bom |-> FALSE,
     time_begin |-> tb, begin_time |-> bt, time_end |-> te, end_time |-> et]
Hi == Entry("Hi", None, Ms(0), NoValue, Ms(1500), NoValue)
Bye == Entry("Bye", None, Ms(1500), NoValue, Ms(3000), NoValue)
Aliased == Entry(None, "So", NoValue, Ms(3000), NoValue, Ms(3725004))
HalfAliased == Entry("On", "Off", Ms(59999), NoValue, NoValue, Ms(60000))
NotObject == [Hi EXCEPT !.obj = FALSE]
NoText == Entry(None, None, Ms(0), NoValue, Ms(1500), NoValue)
NoEnd == Entry("Hi", None, Ms(0), NoValue, NoValue, NoValue)
TextTime == Entry("Hi", None, NotANumber, NoValue, Ms(1500), NoValue)
NumberText == [Hi EXCEPT !.str = FALSE]
WithBom == [Bye EXCEPT !.bom = TRUE]
Entries ==
    {Hi, Bye, Aliased, HalfAliased, NotObject, NoText, NoEnd, TextTime, NumberText, WithBom}

\* the most records in one metadata file
MaxRecords == 3

\* lines 460-473: item.get under the first name, then under the other
Get(first, other, none) == IF first # none THEN first ELSE other
TextOf(e) == Get(e.text, e.sentence, None)
BeginOf(e) == Get(e.time_begin, e.begin_time, NoValue)
EndOf(e) == Get(e.time_end, e.end_time, NoValue)

\* lines 456-477: the entry is not skipped
Kept(e) ==
    /\ e.obj
    /\ TextOf(e) # None /\ BeginOf(e) # NoValue /\ EndOf(e) # NoValue
    /\ BeginOf(e).is = "number" /\ EndOf(e).is = "number"

\* line 479: text.startswith raises when text is no string
TextRaises(e) == Kept(e) /\ e.text # None /\ ~e.str

\* lines 482-483: time / 1000.0 seconds, in ticks
CueTimes(e) ==
    convert_seconds_to_srt_time(BeginOf(e).ms * TicksPerMs, FALSE) \o " --> "
        \o convert_seconds_to_srt_time(EndOf(e).ms * TicksPerMs, FALSE)

\* the number the next entry gets after an entry that was skipped
SkipIdCounts(id) == id + 1
SkipId(id) == id

\* lines 455-489: srt_output after the loop over `entries`, which starts with
\* subtitle_id = id
RECURSIVE Cues(_, _)
Cues(entries, id) ==
    IF entries = <<>> THEN <<>>
    ELSE IF Kept(Head(entries))
         THEN <<Str(id), CueTimes(Head(entries)), TextOf(Head(entries)), "">>
                  \o Cues(Tail(entries), id + 1)
         ELSE Cues(Tail(entries), SkipId(id))

\* "\n".join(lines)
RECURSIVE JoinLines(_)
JoinLines(lines) ==
    IF lines = <<>> THEN ""
    ELSE IF Len(lines) = 1 THEN lines[1]
    ELSE lines[1] \o "\n" \o JoinLines(Tail(lines))

\* The parsed metadata file: a list, an object with the list under one of the
\* keys of line 442, an object without one, or another JSON value: shape is
\* "list", "object", "nolist" or "scalar"
Titles(shape, entries) == [shape |-> shape, key |-> "sentences", entries |-> entries]

\* an object that holds the list under `key`
Wrapped(key, entries) == [shape |-> "object", key |-> key, entries |-> entries]

FirstKeyOnly == {"sentences"}
\* line 442: the keys under which the list is looked for
KnownKeys == {"sentences", "segments", "subtitles", "result_list", "sentence_list"}

\* lines 439-453: the list the loop runs over, if the data holds one
SubtitleList(data) ==
    CASE data.shape = "list" -> [found |-> TRUE, list |-> data.entries]
      [] data.shape = "object" /\ data.key \in KnownKeys ->
             [found |-> TRUE, list |-> data.entries]
      [] OTHER -> [found |-> FALSE, list |-> <<>>]

\* what json_to_srt gives: its return value, the text of the file it wrote
\* (None when it wrote none), and whether an exception left it
Srt(ret, file, raised) == [ret |-> ret, file |-> file, raised |-> raised]

\* lines 435-502; writable is FALSE when srt_path cannot be opened for writing
json_to_srt(data, writable) ==
    LET json_data == SubtitleList(data).list
    IN  CASE ~SubtitleList(data).found -> Srt(FALSE, None, FALSE)
          [] SubtitleList(data).found
             /\ \E i \in 1..Len(json_data) : TextRaises(json_data[i]) ->
                 Srt(FALSE, None, TRUE)
          [] OTHER ->
                 IF Cues(json_data, 1) = <<>> THEN Srt(FALSE, None, FALSE)
                 ELSE IF ~writable THEN Srt(FALSE, None, FALSE)
                 ELSE Srt(TRUE, JoinLines(Cues(json_data, 1)), FALSE)

\* The metadata file process_tar_to_srt finds in the extracted content (lines
\* 517-553): none, one that is no JSON, one that holds an empty list, a list
\* without a usable record, an object without a list, a list with a record
\* whose text is no string, or a list of usable records
TitlesFiles == {"missing", "unparsable", "empty", "unusable", "nolist", "badtext", "good"}
TitlesData(file) ==
    CASE file = "empty" -> Titles("list", <<>>)
      [] file = "unusable" -> Titles("list", <<NotObject, NoEnd, TextTime>>)
      [] file = "nolist" -> Titles("nolist", <<>>)
      [] file = "badtext" -> Titles("list", <<Hi, NumberText>>)
      [] OTHER -> Titles("list", <<Hi, Bye>>)

\* no metadata file followed, no .srt
NoTitles == [file |-> "none", srt |-> None]

\* lines 555-581: srt_generated and the text of the .srt file written (None
\* when none was); an exception of json.loads or json_to_srt is caught
Generated(ok, file) == [ok |-> ok, file |-> file]
SubtitleOf(file, writable) ==
    IF file \in {"missing", "unparsable"} THEN Generated(FALSE, None)
    ELSE LET r == json_to_srt(TitlesData(file), writable)
         IN  IF r.raised THEN Generated(FALSE, None) ELSE Generated(r.ret, r.file)

(***************************************************************************)
(* One FileTask (process_txt_file)                                         *)
(***************************************************************************)
\* pc      where the task is
\* recs    the local list `records` of save_success_record
\* stages  the steps it has started, in order
\* okStages, badStages   the steps that succeeded, failed
\* outcome "none", "done", "skipped" (returned early) or "raised"
\* created TRUE once it made its workspace directory
\* submitted, polled   what the submit request and the poll met ("none"
\*         before): "ok", "timeout", "error", "nonobject", "code" (a non-zero
\*         application code), "noid" (no task id; Success without a file
\*         id), and for the poll "failed", "expired", "exhausted"
NewTask ==
    [pc |-> "queued", recs |-> <<>>, stages |-> <<>>, okStages |-> {},
     badStages |-> {}, outcome |-> "none", created |-> FALSE,
     submitted |-> "none", polled |-> "none"]

\* Python's `if not x`
FalsyNever(v) == FALSE
Falsy(v) == v = None

\* the step `stage` is run, and succeeds or fails
Mark(f, stage, ok) ==
    [f EXCEPT !.stages = Append(@, stage),
              !.okStages = IF ok THEN @ \cup {stage} ELSE @,
              !.badStages = IF ok THEN @ ELSE @ \cup {stage}]
\* process_txt_file returns early (a skip), returns at its end, or is left
\* by an exception
End(f, how) == [f EXCEPT !.pc = "ended", !.outcome = how, !.recs = <<>>]
Pass(f, stage, to) == [Mark(f, stage, TRUE) EXCEPT !.pc = to]
Skip(f, stage) == End(Mark(f, stage, FALSE), "skipped")
Throw(f, stage) == End(Mark(f, stage, FALSE), "raised")

\* a call and the `if not result: return` that follows it
Gate(f, stage, res, to) ==
    IF res.raised THEN Throw(f, stage)
    ELSE LET f1 == Mark(f, stage, res.value # None)
         IN  IF Falsy(res.value) THEN End(f1, "skipped") ELSE [f1 EXCEPT !.pc = to]

\* lines 714-734: what follows download_file's (path, url)
AfterDownloadUrlFirst(path, url) ==
    IF url # None THEN "saveRead" ELSE IF Falsy(path) THEN "ended" ELSE "extract"
AfterDownload(path, url) ==
    IF Falsy(path) THEN "ended"
    ELSE IF url # None THEN "saveRead" ELSE "extract"

\* an exception of save_success_record reaching process_txt_file
Reraised(f) == End(f, "raised")
\* lines 112-113 of save_success_record and line 737: the exception is
\* logged, the call returns and process_tar_to_srt is next
Swallowed(f) == [f EXCEPT !.pc = "extract", !.recs = <<>>]

\* lines 555-583: srt_generated is set and not read; the final move is next
SubtitleStepFatal(f, ok) ==
    IF ok THEN [Mark(f, "subtitle", ok) EXCEPT !.pc = "placeCheck"]
    ELSE Skip(f, "subtitle")
SubtitleStep(f, ok) == [Mark(f, "subtitle", ok) EXCEPT !.pc = "placeCheck"]

(***************************************************************************)
(* State                                                                   *)
(***************************************************************************)
(***************************************************************************)
(* The submit payload: create_speech_task, lines 175-195                   *)
(***************************************************************************)
\* a number and the python type that carries it; v counts tenths, the step
\* of the speed spin box
Real(tenths) == [type |-> "float", v |-> tenths]
Whole(k) == [type |-> "int", v |-> 10 * k]

\* float(x): the same number as a float
PyFloat(x) == [type |-> "float", v |-> x.v]

\* int(x): the fraction is cut off, towards zero
PyInt(x) ==
    [type |-> "int",
     v |-> IF x.v >= 0 THEN 10 * (x.v \div 10) ELSE -(10 * ((-x.v) \div 10))]

\* the API values of EMOTION_MAP
Emotions ==
    {"default", "neutral", "happy", "sad", "angry", "fearful", "disgusted", "surprised"}

\* str.lower() on the emotion strings; the API values are lower case already
Lower(s) == IF s \in {"Default", "DEFAULT"} THEN "default" ELSE s

\* the python truth value of the emotion argument
Truthy(s) == s \notin {"", None}

EmotionAlways(emotion) == TRUE
\* lines 182-183: whether voice_setting gets the key "emotion"
EmotionSent(emotion) == Truthy(emotion) /\ Lower(emotion) # "default"

SpeedAsInt(speed) == PyInt(speed)
\* line 177
SpeedSent(speed) == PyFloat(speed)

\* lines 175-183
voice_setting(voice_id, speed, vol, pitch, emotion) ==
    LET vs == [voice_id |-> voice_id, speed |-> SpeedSent(speed),
               vol |-> PyFloat(vol), pitch |-> PyInt(pitch)]
    IN  IF EmotionSent(emotion) THEN vs @@ ("emotion" :> emotion) ELSE vs

VARIABLES
    nfiles,      \* len(files_and_settings_list): requests 1..nfiles make the batch
    titles,      \* the metadata file in the archives of this batch, when the
                 \* subtitle step is followed into json_to_srt, and the .srt written
    base,        \* base[t]: txt_file_name_no_ext of the t-th request
    max_workers, \* the pool size handed to process_list_of_txt_files
    log0,        \* succeed.json as the batch found it
    root0,       \* the entries of output_dir as the batch found them
    batch,       \* "start", "running", "aborted" or "done" (summary emitted)
    rootExists,  \* output_dir exists
    root,        \* the entries of output_dir, by name
    log,         \* succeed.json: the array of records (the task that wrote
                 \* each; 0 for a record of an earlier run)
    logFault,    \* TRUE once a read or a write of succeed.json failed
    ft,          \* ft[t]: the FileTask of the t-th request
    poll,        \* the running get_task_status call
    sent,        \* status requests put on the wire by that call
    firstTerm,   \* the first terminal status the service reported, or NoResp
    afterTerm,   \* status requests made after firstTerm was reported
    last,        \* the answer to the latest status request, or NoResp
    seen,        \* the kinds of transient failure answered so far
    dl,          \* one call of download_file: its arguments and what it gave
    ex,          \* one call of extract_and_rename: its arguments and result
    srt,         \* one call of json_to_srt: its arguments and result
    tc,          \* one call of convert_seconds_to_srt_time
    req,         \* one call of create_speech_task: its arguments and the payload
    gui          \* the main window: whether its start button is enabled, the
                 \* processing threads alive, the calls of on_processing_finished
                 \* scheduled and not yet run, the batches launched, the message
                 \* box shown last, whether the last thread met an exception

batchVars == <<nfiles, titles, base, max_workers, log0, root0, batch, rootExists, root, log, logFault, ft>>
pollVars == <<poll, sent, firstTerm, afterTerm, last, seen>>
callVars == <<dl, ex, srt, tc, req, gui>>
vars == <<nfiles, titles, base, max_workers, log0, root0, batch, rootExists, root, log, logFault, ft,
          poll, sent, firstTerm, afterTerm, last, seen, dl, ex, srt, tc, req, gui>>

Ws(t) == WsName(base[t])
Final(t) == FinalName(base[t])
Running(t) == ft[t].pc \notin {"queued", "ended"}

\* lines 768-774: the batch goes on when output_dir exists or could be made
RootReadyAlways(existed, ok) == TRUE
RootReady(existed, ok) == existed \/ ok

\* line 776: ThreadPoolExecutor(max_workers) runs a submitted call only on
\* a thread that is not running one
HasIdleWorkerAlways(busy) == TRUE
HasIdleWorker(busy) == busy < max_workers

\* lines 790-795: future.result() has returned or raised for every future
AnyCollected == \E t \in 1..nfiles : ft[t].pc = "ended"
AllCollected == \A t \in 1..nfiles : ft[t].pc = "ended"

\* The batch starts without output_dir, with an empty one, or with what an
\* earlier run of the same files left: their final directories (content 0),
\* workspaces that were not cleaned up, and a record in succeed.json
OldFinal == Dir({}, {}, {0})
OldWs == Dir({0}, {}, {})
OldRoot == [n \in Names |->
               IF n \in {FinalName(b) : b \in BaseNames} THEN OldFinal
               ELSE IF n \in {WsName(b) : b \in BaseNames} THEN OldWs
               ELSE Absent]
NoRoot == [n \in Names |-> Absent]

(***************************************************************************)
(* The poller on its own: every sequence of service responses              *)
(***************************************************************************)
PollIdle ==
    /\ poll = PollStart
    /\ sent = 0
    /\ firstTerm = NoResp
    /\ afterTerm = 0
    /\ last = NoResp
    /\ seen = {}

BatchIdle ==
    /\ nfiles = NumTasks
    /\ titles = NoTitles
    /\ base = [t \in Tasks |-> "a"]
    /\ max_workers = 1
    /\ log0 = <<>>
    /\ root0 = NoRoot
    /\ batch = "start"
    /\ rootExists = FALSE
    /\ root = NoRoot
    /\ log = <<>>
    /\ logFault = FALSE
    /\ ft = [t \in Tasks |-> NewTask]

\* no call of download_file on its own
NoCall ==
    [phase |-> "none", dir |-> Absent, meta |-> NoResp, mk |-> FALSE,
     stream |-> "ok", out |-> DownloadReturn(None, None, Absent)]
DownloadIdle == dl = NoCall

\* no call of extract_and_rename on its own
NoExtract ==
    [phase |-> "none", dir |-> Absent, out |-> {}, kind |-> "onedir",
     fault |-> "none", pick |-> NoDir, res |-> Extracted(None, FALSE, Absent, FALSE)]
ExtractIdle == ex = NoExtract

\* no call of json_to_srt or convert_seconds_to_srt_time on its own
NoSrt ==
    [phase |-> "none", data |-> Titles("list", <<>>), writable |-> TRUE,
     res |-> Srt(FALSE, None, FALSE)]
NoTime ==
    [phase |-> "none", x |-> 0, up |-> FALSE, fields |-> SrtFields(0, FALSE), text |-> ""]
SubtitleIdle == srt = NoSrt /\ tc = NoTime

\* no call of create_speech_task on its own
NoRequest ==
    [phase |-> "none", speed |-> Real(10), vol |-> Whole(1), pitch |-> Whole(0),
     emotion |-> "default", payload |-> [voice_id |-> "audiobook_male_1"]]
RequestIdle == req = NoRequest

\* the window before the first click: the button enabled, no thread
NoGui ==
    [button |-> TRUE, threads |-> 0, pending |-> 0, launched |-> 0,
     shown |-> "none", raised |-> FALSE]
GuiIdle == gui = NoGui

PollInit ==
    PollIdle /\ BatchIdle /\ DownloadIdle /\ ExtractIdle /\ SubtitleIdle /\ RequestIdle /\ GuiIdle

\* one turn of the loop against a service that may answer anything; sent is
\* capped one past the budget so that an overrun is seen and the model is finite
StatusRequest(r) ==
    /\ poll.state = "loop"
    /\ sent <= max_retries
    /\ poll' = PollStep(poll, r)
    /\ sent' = sent + 1
    /\ firstTerm' = IF firstTerm = NoResp /\ IsTerminal(r) THEN r ELSE firstTerm
    /\ afterTerm' = IF firstTerm # NoResp THEN 1 ELSE afterTerm
    /\ last' = r
    /\ seen' = IF Transient(r) THEN seen \cup {TransientKind(r)} ELSE seen
    /\ UNCHANGED <<batchVars, callVars>>

PollNext == \E r \in StatusResponses : StatusRequest(r)

SpecPoll == PollInit /\ [][PollNext]_vars

(***************************************************************************)
(* download_file on its own: every save_dir, answer and stream outcome     *)
(***************************************************************************)
\* save_dir missing, empty, or holding a <base>.tar of an earlier run
SaveDirs == {Absent, EmptyDir, OldWs}

DownloadInit ==
    /\ PollIdle
    /\ RequestIdle
    /\ GuiIdle
    /\ BatchIdle
    /\ ExtractIdle
    /\ SubtitleIdle
    /\ dl \in {[NoCall EXCEPT !.phase = "called", !.dir = d, !.meta = m,
                               !.mk = k, !.stream = x] :
                  d \in SaveDirs, m \in Answers, k \in BOOLEAN, x \in StreamOutcomes}

\* the call returns, or raises
DownloadCall ==
    /\ dl.phase = "called"
    /\ dl' = [dl EXCEPT !.phase = "returned",
                        !.out = download_file(dl.dir, dl.meta, dl.mk, dl.stream, 1)]
    /\ UNCHANGED <<batchVars, pollVars, ex, srt, tc, req, gui>>

SpecDownload == DownloadInit /\ [][DownloadCall]_vars

(***************************************************************************)
(* extract_and_rename on its own: every extract_dir, archive and failure    *)
(***************************************************************************)
\* extract_dir as the call finds it: with or without the archive <base>.tar in
\* it (content 1), a directory left by an earlier extraction (content 0) and
\* a directory extract_dir/new_dir_name left by an earlier run (content 0)
WorkDirs == {Dir(tar, raw, sub) : tar \in {{}, {1}}, raw \in {{}, {0}}, sub \in {{}, {0}}}

\* tar_path outside extract_dir (content 2), or <base>.tar inside it
Outside == {{}, {2}}

ExtractInit ==
    /\ PollIdle
    /\ RequestIdle
    /\ GuiIdle
    /\ BatchIdle
    /\ DownloadIdle
    /\ SubtitleIdle
    /\ ex \in {[NoExtract EXCEPT !.phase = "called", !.dir = d, !.out = o,
                                 !.kind = k, !.fault = f] :
                  d \in WorkDirs, o \in Outside, k \in TarKinds, f \in TarFaults}

\* the call returns, or raises; os.listdir may put any directory first
ExtractCall ==
    /\ ex.phase = "called"
    /\ \E pick \in Picks(ex.dir, ex.out, ex.kind) :
           ex' = [ex EXCEPT !.phase = "returned", !.pick = pick,
                            !.res = extract_and_rename(ex.dir, ex.out, ex.kind,
                                                       ex.fault, pick)]
    /\ UNCHANGED <<batchVars, pollVars, dl, srt, tc, req, gui>>

SpecExtract == ExtractInit /\ [][ExtractCall]_vars

(***************************************************************************)
(* json_to_srt and convert_seconds_to_srt_time on their own                *)
(***************************************************************************)
\* every list of at most MaxRecords entries
RECURSIVE Lists(_)
Lists(n) ==
    IF n = 0 THEN {<<>>}
    ELSE Lists(n - 1) \cup {Append(l, e) : l \in {k \in Lists(n - 1) : Len(k) = n - 1},
                                            e \in Entries}

\* the key an object holds its list under: the five of line 442 and another
WrapperKeys ==
    {"sentences", "segments", "subtitles", "result_list", "sentence_list", "data"}

SrtInputs ==
    {Titles("list", l) : l \in Lists(MaxRecords)}
        \cup {Wrapped(k, l) : k \in WrapperKeys, l \in Lists(MaxRecords)}
        \cup {Titles(shape, <<>>) : shape \in {"nolist", "scalar"}}

SrtInit ==
    /\ PollIdle
    /\ RequestIdle
    /\ GuiIdle
    /\ BatchIdle
    /\ DownloadIdle
    /\ ExtractIdle
    /\ tc = NoTime
    /\ srt \in {[NoSrt EXCEPT !.phase = "called", !.data = d, !.writable = w] :
                   d \in SrtInputs, w \in BOOLEAN}

SrtCall ==
    /\ srt.phase = "called"
    /\ srt' = [srt EXCEPT !.phase = "returned",
                          !.res = json_to_srt(srt.data, srt.writable)]
    /\ UNCHANGED <<batchVars, pollVars, dl, ex, tc, req, gui>>

SpecSrt == SrtInit /\ [][SrtCall]_vars

\* offsets around every carry: whole hours, minutes and seconds, with a
\* fraction at, just below and just above a millisecond and its half
Fractions == {0, 4, 5, 6, 15, 4995, 5000, 9985, 9994, 9995, 9996, 9999}
TimeInputs ==
    {((h * 3600 + m * 60 + sec) * TicksPerSecond) + f :
         h \in {0, 1}, m \in {0, 1, 59}, sec \in {0, 1, 59}, f \in Fractions}

TimeInit ==
    /\ PollIdle
    /\ RequestIdle
    /\ GuiIdle
    /\ BatchIdle
    /\ DownloadIdle
    /\ ExtractIdle
    /\ srt = NoSrt
    /\ tc \in {[NoTime EXCEPT !.phase = "called", !.x = x, !.up = up] :
                  x \in TimeInputs, up \in BOOLEAN}

TimeCall ==
    /\ tc.phase = "called"
    /\ tc' = [tc EXCEPT !.phase = "returned",
                        !.fields = Carry(SrtFields(tc.x, tc.up)),
                        !.text = convert_seconds_to_srt_time(tc.x, tc.up)]
    /\ UNCHANGED <<batchVars, pollVars, dl, ex, srt, req, gui>>

SpecTime == TimeInit /\ [][TimeCall]_vars

(***************************************************************************)
(* create_speech_task on its own: every setting the window can produce     *)
(***************************************************************************)
\* the ranges of the spin boxes (ui.py 351-367) and the emotions of the combo box
Speeds == {Real(k) : k \in 5..20}
Vols == {Whole(k) : k \in 1..10}
Pitches == {Whole(k) : k \in -12..12}

SubmitInit ==
    /\ PollIdle
    /\ BatchIdle
    /\ DownloadIdle
    /\ ExtractIdle
    /\ SubtitleIdle
    /\ GuiIdle
    /\ req \in {[NoRequest EXCEPT !.phase = "called", !.speed = s, !.vol = v,
                                  !.pitch = p, !.emotion = e] :
                   s \in Speeds, v \in Vols, p \in Pitches, e \in Emotions}

\* the payload is built and put on the wire
SubmitCall ==
    /\ req.phase = "called"
    /\ req' = [req EXCEPT !.phase = "sent",
                          !.payload = voice_setting("audiobook_male_1", req.speed,
                                                    req.vol, req.pitch, req.emotion)]
    /\ UNCHANGED <<batchVars, pollVars, dl, ex, srt, tc, gui>>

SpecSubmit == SubmitInit /\ [][SubmitCall]_vars

(***************************************************************************)
(* The batch: process_list_of_txt_files and its workers                    *)
(***************************************************************************)
Init ==
    /\ PollIdle
    /\ RequestIdle
    /\ GuiIdle
    /\ DownloadIdle
    /\ ExtractIdle
    /\ SubtitleIdle
    /\ nfiles = NumTasks
    /\ titles = NoTitles
    /\ base \in {f \in [Tasks -> BaseNames] :
                     /\ f[1] = "a"
                     /\ \A t \in Tasks : f[t] \in (IF t <= nfiles THEN {"a", "b"} ELSE {"c"})}
    /\ max_workers \in 1..MaxWorkers
    /\ rootExists \in BOOLEAN
    /\ root0 \in (IF rootExists THEN {NoRoot, OldRoot} ELSE {NoRoot})
    /\ root = root0
    /\ log0 = (IF root0 = OldRoot THEN <<0>> ELSE <<>>)
    /\ log = log0
    /\ logFault = FALSE
    /\ batch = "start"
    /\ ft = [t \in Tasks |-> NewTask]

\* lines 768-774: output_dir is created when missing; the batch ends there
\* when that fails
BatchStart(ok) ==
    /\ batch = "start"
    /\ (rootExists => ok)
    /\ rootExists' = (rootExists \/ ok)
    /\ batch' = IF RootReady(rootExists, ok) THEN "running" ELSE "aborted"
    /\ UNCHANGED <<nfiles, titles, base, max_workers, log0, root0, root, log, logFault, ft>>
    /\ UNCHANGED <<pollVars, callVars>>

\* lines 776-788: a worker of the pool takes the next queued request
StartTask(t) ==
    /\ batch = "running"
    /\ t <= nfiles
    /\ ft[t].pc = "queued"
    /\ \A u \in Tasks : u < t => ft[u].pc # "queued"
    /\ HasIdleWorker(Cardinality({u \in Tasks : Running(u)}))
    /\ ft' = [ft EXCEPT ![t].pc = "upload"]
    /\ UNCHANGED <<nfiles, titles, base, max_workers, log0, root0, batch, rootExists, root, log, logFault>>
    /\ UNCHANGED <<pollVars, callVars>>

\* lines 790-798: every future has a result; the summary line
BatchFinish ==
    /\ batch = "running"
    /\ AllCollected
    /\ batch' = "done"
    /\ UNCHANGED <<nfiles, titles, base, max_workers, log0, root0, rootExists, root, log, logFault, ft>>
    /\ UNCHANGED <<pollVars, callVars>>

\* the frame of a task step that touches neither the directory nor the log
TaskOnly == UNCHANGED <<nfiles, titles, base, max_workers, log0, root0, batch, rootExists, root, log, logFault>>
                /\ UNCHANGED <<pollVars, callVars>>
FsOnly == UNCHANGED <<nfiles, titles, base, max_workers, log0, root0, batch, rootExists, log, logFault>>
              /\ UNCHANGED <<pollVars, callVars>>

\* lines 679-682
Upload(t, r) ==
    /\ ft[t].pc = "upload"
    /\ ft' = [ft EXCEPT ![t] = Gate(@, "upload", upload_text_file(r), "submit")]
    /\ TaskOnly

\* lines 685-690
Submit(t, r) ==
    /\ ft[t].pc = "submit"
    /\ ft' = [ft EXCEPT ![t] =
                [Gate(@, "submit", create_speech_task(r), "poll")
                    EXCEPT !.submitted = AnswerKind(r)]]
    /\ TaskOnly

\* lines 693-696: the whole poll; st is how get_task_status ended
Poll(t, st) ==
    /\ ft[t].pc = "poll"
    /\ LET res == IF st.state = "raised" THEN Raise ELSE Ret(st.result)
       IN  ft' = [ft EXCEPT ![t] =
                    [Gate(@, "poll", res, "workspace") EXCEPT !.polled = PollKind(st)]]
    /\ TaskOnly

\* lines 698-705: a stale workspace is removed and the directory made
MakeWorkspace(t, ok) ==
    /\ ft[t].pc = "workspace"
    /\ root' = IF ok THEN makedirs(rmtree(root, Ws(t)), Ws(t)) ELSE rmtree(root, Ws(t))
    /\ ft' = [ft EXCEPT ![t] =
                IF ok THEN [Pass(@, "workspace", "metadata") EXCEPT !.created = TRUE]
                ELSE Skip(@, "workspace")]
    /\ FsOnly

\* lines 290-313 and 341-348 of download_file, then lines 714-720
Metadata(t, r) ==
    /\ ft[t].pc = "metadata"
    /\ LET res == FileMetadata(r)
       IN  /\ ft' = [ft EXCEPT ![t] = Gate(@, "metadata", res, "download")]
           /\ root' = IF res.raised \/ ~Falsy(res.value) THEN root
                      ELSE rmtree(root, Ws(t))
    /\ FsOnly

\* lines 307-340 of download_file: save_dir is made when missing and the
\* archive streamed into it; a failed stream leaves no file and gives
\* (None, url); then lines 714-734
Download(t, ok) ==
    /\ ft[t].pc = "download"
    /\ LET to == AfterDownload(IF ok THEN "tar" ELSE None, "url")
           f1 == Mark(ft[t], "download", ok)
           made == makedirs(root, Ws(t))
           got == IF ok THEN [made EXCEPT ![Ws(t)].tar = {t}] ELSE made
       IN  /\ ft' = [ft EXCEPT ![t] = IF to = "ended" THEN End(f1, "skipped")
                                      ELSE [f1 EXCEPT !.pc = to]]
           /\ root' = IF to = "ended" THEN rmtree(got, Ws(t)) ELSE got
    /\ FsOnly

\* lines 97-107 of save_success_record: the array is read (a file emptied by
\* a writer is read as no records); when the file cannot be opened or read
\* the handler of lines 112-113 swallows the error
SaveRead(t, ok) ==
    /\ ft[t].pc = "saveRead"
    /\ ft' = [ft EXCEPT ![t] =
                IF ok THEN [@ EXCEPT !.stages = Append(@, "record"), !.recs = log,
                                     !.pc = "saveOpen"]
                ELSE Swallowed([@ EXCEPT !.stages = Append(@, "record")])]
    /\ logFault' = (logFault \/ ~ok)
    /\ UNCHANGED <<nfiles, titles, base, max_workers, log0, root0, batch, rootExists, root, log>>
    /\ UNCHANGED <<pollVars, callVars>>

\* lines 108-109: open(..., 'w') empties the file; when it fails the handler
\* of lines 112-113 swallows the error
SaveOpen(t, ok) ==
    /\ ft[t].pc = "saveOpen"
    /\ log' = IF ok THEN <<>> ELSE log
    /\ ft' = [ft EXCEPT ![t] =
                IF ok THEN [@ EXCEPT !.pc = "saveDump"]
                ELSE Swallowed(@)]
    /\ logFault' = (logFault \/ ~ok)
    /\ UNCHANGED <<nfiles, titles, base, max_workers, log0, root0, batch, rootExists, root>>
    /\ UNCHANGED <<pollVars, callVars>>

\* line 110: json.dump of the array read, with the new record at its end
SaveDump(t) ==
    /\ ft[t].pc = "saveDump"
    /\ log' = Append(ft[t].recs, t)
    /\ ft' = [ft EXCEPT ![t] =
                [@ EXCEPT !.pc = "extract", !.recs = <<>>]]
    /\ UNCHANGED logFault
    /\ UNCHANGED <<nfiles, titles, base, max_workers, log0, root0, batch, rootExists, root>>
    /\ UNCHANGED <<pollVars, callVars>>

\* line 509 of process_tar_to_srt (extract_and_rename), lines 511-515
Extract(t, kind, fault, pick) ==
    /\ ft[t].pc = "extract"
    /\ pick \in Picks(root[Ws(t)], {}, kind)
    /\ LET x == extract_and_rename(root[Ws(t)], {}, kind, fault, pick)
       IN  /\ ft' = [ft EXCEPT ![t] =
                       IF x.raised THEN Throw(@, "extract")
                       ELSE IF x.ok THEN Pass(@, "extract", "subtitle")
                       ELSE Skip(@, "extract")]
           /\ root' = IF x.raised \/ x.ok THEN [root EXCEPT ![Ws(t)] = x.dir]
                      ELSE rmtree(root, Ws(t))
    /\ FsOnly

\* lines 517-581: the metadata file is looked for and converted; whatever
\* happens there is logged and the function goes on
Subtitle(t, ok) ==
    /\ ft[t].pc = "subtitle"
    /\ ft' = [ft EXCEPT ![t] = SubtitleStep(@, ok)]
    /\ TaskOnly

\* lines 583-599: an existing final directory is removed; when that fails the
\* workspace is removed and the task gives up
PlaceCheck(t, ok) ==
    /\ ft[t].pc = "placeCheck"
    /\ (root[Final(t)].exists \/ ok)
    /\ root' = IF ~root[Final(t)].exists THEN root
               ELSE IF ok THEN ClearFinal(root, Final(t))
               ELSE rmtree(root, Ws(t))
    /\ ft' = [ft EXCEPT ![t] =
                IF ok THEN [@ EXCEPT !.stages = Append(@, "move"), !.pc = "placeMove"]
                ELSE Skip(@, "move")]
    /\ FsOnly

\* lines 601-657: the move (it fails when the content is gone), the cleanup
\* of the workspace, and lines 744-756
PlaceMove(t, ok) ==
    /\ ft[t].pc = "placeMove"
    /\ LET there == root[Ws(t)].exists /\ root[Ws(t)].sub # {}
       IN  /\ root' = IF there /\ ok THEN MoveToFinal(root, Ws(t), Final(t))
                      ELSE rmtree(root, Ws(t))
           /\ ft' = [ft EXCEPT ![t] =
                       IF there /\ ok
                       THEN End([@ EXCEPT !.okStages = @ \cup {"move"}], "done")
                       ELSE End([@ EXCEPT !.badStages = @ \cup {"move"}], "skipped")]
    /\ FsOnly

\* every step of a task but the subtitle step
PipelineStep(t) ==
    \/ \E r \in Answers : Upload(t, r)
    \/ \E r \in Answers : Submit(t, r)
    \/ \E st \in PollResults : Poll(t, st)
    \/ \E ok \in BOOLEAN : MakeWorkspace(t, ok)
    \/ \E r \in Answers : Metadata(t, r)
    \/ \E ok \in BOOLEAN : Download(t, ok)
    \/ \E ok \in BOOLEAN : SaveRead(t, ok)
    \/ \E ok \in BOOLEAN : SaveOpen(t, ok)
    \/ SaveDump(t)
    \/ \E kind \in ArchiveKinds, fault \in ExtractFaults :
           \E pick \in Picks(root[Ws(t)], {}, kind) : Extract(t, kind, fault, pick)
    \/ \E ok \in BOOLEAN : PlaceCheck(t, ok)
    \/ \E ok \in BOOLEAN : PlaceMove(t, ok)

TaskStep(t) ==
    \/ PipelineStep(t)
    \/ \E ok \in BOOLEAN : Subtitle(t, ok)

Next ==
    \/ \E ok \in BOOLEAN : BatchStart(ok)
    \/ \E t \in Tasks : StartTask(t)
    \/ \E t \in Tasks : TaskStep(t)
    \/ BatchFinish

Spec == Init /\ [][Next]_vars

\* every call of the pool's threads returns or raises, and a thread that can
\* run does run
FairSpec == Spec /\ WF_vars(Next)

(***************************************************************************)
(* One file, with the subtitle step followed into the metadata file        *)
(***************************************************************************)
TitlesInit ==
    /\ PollIdle
    /\ RequestIdle
    /\ GuiIdle
    /\ DownloadIdle
    /\ ExtractIdle
    /\ SubtitleIdle
    /\ nfiles = 1
    /\ titles \in {[NoTitles EXCEPT !.file = f] : f \in TitlesFiles}
    /\ base = [t \in Tasks |-> "a"]
    /\ max_workers = 1
    /\ rootExists \in BOOLEAN
    /\ root0 \in (IF rootExists THEN {NoRoot, OldRoot} ELSE {NoRoot})
    /\ root = root0
    /\ log0 = (IF root0 = OldRoot THEN <<0>> ELSE <<>>)
    /\ log = log0
    /\ logFault = FALSE
    /\ batch = "start"
    /\ ft = [t \in Tasks |-> NewTask]

\* lines 517-581 on the metadata file of this batch
SubtitleFrom(t, writable) ==
    /\ ft[t].pc = "subtitle"
    /\ LET g == SubtitleOf(titles.file, writable)
       IN  /\ ft' = [ft EXCEPT ![t] = SubtitleStep(@, g.ok)]
           /\ titles' = [titles EXCEPT !.srt = g.file]
    /\ UNCHANGED <<nfiles, base, max_workers, log0, root0, batch, rootExists, root, log, logFault>>
    /\ UNCHANGED <<pollVars, callVars>>

TitlesNext ==
    \/ \E ok \in BOOLEAN : BatchStart(ok)
    \/ \E t \in Tasks : StartTask(t)
    \/ \E t \in Tasks : PipelineStep(t)
    \/ \E t \in Tasks, writable \in BOOLEAN : SubtitleFrom(t, writable)
    \/ BatchFinish

SpecTitles == TitlesInit /\ [][TitlesNext]_vars

(***************************************************************************)
(* The end-to-end scenario: files A, B, C with two workers against a       *)
(* service that succeeds at once for A and C and reports Failed for B      *)
(***************************************************************************)
\* the answer of a healthy service to upload, submit and metadata lookup
Healthy == Resp("body", 0, "Processing", "f1")

\* B is the second file of the list
JobFails(t) == t = 2

\* the poll of each file: one status request, answered Success or Failed
ScenarioPoll(t) ==
    IF JobFails(t) THEN get_task_status(<<Resp("body", 0, "Failed", None)>>)
    ELSE get_task_status(<<Resp("body", 0, "Success", "f1")>>)

E2EInit ==
    /\ PollIdle
    /\ RequestIdle
    /\ GuiIdle
    /\ DownloadIdle
    /\ ExtractIdle
    /\ SubtitleIdle
    /\ nfiles = Len(Scenario)
    /\ titles = NoTitles
    /\ base = [t \in Tasks |-> IF t <= Len(Scenario) THEN Scenario[t] ELSE "c"]
    /\ max_workers = Len(Scenario) - 1
    /\ rootExists = TRUE
    /\ root0 = NoRoot
    /\ root = root0
    /\ log0 = <<>>
    /\ log = log0
    /\ logFault = FALSE
    /\ batch = "start"
    /\ ft = [t \in Tasks |-> NewTask]

\* the steps of a task when the filesystem does not fail and the archive
\* holds one top-level directory
E2EStep(t) ==
    \/ Upload(t, Healthy)
    \/ Submit(t, Healthy)
    \/ Poll(t, ScenarioPoll(t))
    \/ MakeWorkspace(t, TRUE)
    \/ Metadata(t, Healthy)
    \/ Download(t, TRUE)
    \/ SaveRead(t, TRUE)
    \/ SaveOpen(t, TRUE)
    \/ SaveDump(t)
    \/ \E pick \in Picks(root[Ws(t)], {}, "onedir") : Extract(t, "onedir", "none", pick)
    \/ Subtitle(t, TRUE)
    \/ PlaceCheck(t, TRUE)
    \/ PlaceMove(t, TRUE)

E2ENext ==
    \/ BatchStart(TRUE)
    \/ \E t \in Tasks : StartTask(t)
    \/ \E t \in Tasks : E2EStep(t)
    \/ BatchFinish

SpecE2E == E2EInit /\ [][E2ENext]_vars

(***************************************************************************)
(* The window: start_processing, the processing thread and its callback    *)
(***************************************************************************)
\* the most batches launched from one window
MaxBatches == 2

ButtonLeftEnabled == TRUE
\* ui.py line 698: start_button.setEnabled(False)
ButtonWhileProcessing == FALSE

\* one file in the list, a pool of one thread, an output directory that exists
GuiInit ==
    /\ PollIdle
    /\ RequestIdle
    /\ DownloadIdle
    /\ ExtractIdle
    /\ SubtitleIdle
    /\ gui = NoGui
    /\ nfiles = 1
    /\ titles = NoTitles
    /\ base = [t \in Tasks |-> "a"]
    /\ max_workers = 1
    /\ rootExists = TRUE
    /\ root0 \in {NoRoot, OldRoot}
    /\ root = root0
    /\ log0 = (IF root0 = OldRoot THEN <<0>> ELSE <<>>)
    /\ log = log0
    /\ logFault = FALSE
    /\ batch = "start"
    /\ ft = [t \in Tasks |-> NewTask]

\* ui.py lines 660-711: a click on the start button, which only an enabled
\* button takes. When a check of lines 667-695 fails a warning is shown and
\* nothing else happens; otherwise the button is disabled and the thread
\* started on a copy of the list
StartProcessing(valid) ==
    /\ gui.button
    /\ valid => rootExists /\ gui.launched < MaxBatches
    /\ gui' = IF valid
              THEN [gui EXCEPT !.button = ButtonWhileProcessing, !.threads = @ + 1,
                               !.launched = @ + 1, !.shown = "none", !.raised = FALSE]
              ELSE [gui EXCEPT !.shown = "warning"]
    /\ batch' = IF valid THEN "start" ELSE batch
    /\ ft' = IF valid THEN [t \in Tasks |-> NewTask] ELSE ft
    /\ root0' = IF valid THEN root ELSE root0
    /\ log0' = IF valid THEN log ELSE log0
    /\ logFault' = IF valid THEN FALSE ELSE logFault
    /\ UNCHANGED <<nfiles, titles, base, max_workers, rootExists, root, log>>
    /\ UNCHANGED <<pollVars, dl, ex, srt, tc, req>>

\* ui.py lines 721-728: process_list_of_txt_files runs on the thread
BatchRuns ==
    /\ gui.threads > 0
    /\ Next

\* ui.py lines 729-733: the call has returned, or has raised while none of
\* its workers was running; the handler logs, the finally clause schedules
\* on_processing_finished and the thread ends
ProcessingEnds(raised) ==
    /\ gui.threads > 0
    /\ IF raised THEN batch \in {"start", "running"} /\ \A t \in Tasks : ~Running(t)
       ELSE batch \in {"done", "aborted"}
    /\ gui' = [gui EXCEPT !.threads = @ - 1, !.pending = @ + 1, !.raised = raised]
    /\ UNCHANGED <<batchVars, pollVars, dl, ex, srt, tc, req>>

\* ui.py lines 713-717, run by the event loop
OnProcessingFinished ==
    /\ gui.pending > 0
    /\ gui' = [gui EXCEPT !.button = TRUE, !.pending = @ - 1, !.shown = "finished"]
    /\ UNCHANGED <<batchVars, pollVars, dl, ex, srt, tc, req>>

GuiNext ==
    \/ \E valid \in BOOLEAN : StartProcessing(valid)
    \/ BatchRuns
    \/ \E raised \in BOOLEAN : ProcessingEnds(raised)
    \/ OnProcessingFinished

SpecGui == GuiInit /\ [][GuiNext]_vars

\* the calls of the batch return, the thread runs to its end and the event
\* loop runs what was scheduled; nobody has to click
FairGui ==
    /\ SpecGui
    /\ WF_vars(BatchRuns)
    /\ WF_vars(\E raised \in BOOLEAN : ProcessingEnds(raised))
    /\ WF_vars(OnProcessingFinished)

(***************************************************************************)
(* Properties                                                              *)
(***************************************************************************)
Ended(t) == ft[t].pc = "ended"
Downloaded(t) == "download" \in ft[t].okStages
Occurrences(seq, x) == Cardinality({i \in 1..Len(seq) : seq[i] = x})
Position(seq, x) == CHOOSE i \in 1..Len(seq) : seq[i] = x

\* the steps of process_txt_file in the order of its text
StageOrder ==
    <<"upload", "submit", "poll", "workspace", "metadata", "download", "record",
      "extract", "subtitle", "move">>
InOrder(f) ==
    /\ Len(f.stages) <= Len(StageOrder)
    /\ \A i \in 1..Len(f.stages) : f.stages[i] = StageOrder[i]
\* no step was started after a failed one, the steps of `tolerated` aside
NothingAfterFailure(f, tolerated) ==
    \A i \in 1..Len(f.stages) :
        f.stages[i] \in f.badStages \ tolerated => i = Len(f.stages)

\* from its workspace being made to its end, a task works in WsName(base)
InWorkspace(t) ==
    ft[t].pc \in {"metadata", "download", "saveRead", "saveOpen", "saveDump",
                  "extract", "subtitle", "placeCheck", "placeMove"}

\* C1: when the batch is over and no write of the log failed, the log is
\* longer than at the start by exactly the number of tasks that completed
\* their download (each of them called save_success_record once).
C1_NoRecordLost ==
    (batch = "done" /\ ~logFault) =>
        Len(log) = Len(log0) + Cardinality({t \in Tasks : Downloaded(t)})

\* C2: a task starts save_success_record at most once, and only after its
\* download returned an archive; once the download has returned an archive the
\* record step comes next, so it precedes extraction and every task that is
\* extracting, placing or has ended after a download has made it; a failed
\* upload, submit, poll, metadata lookup or download leaves no record step.
\* With one worker and no failing write the log then holds exactly one entry
\* of each such task, whatever became of its extraction or placement.
C2_RecordIffDownloaded ==
    /\ \A t \in Tasks :
          LET f == ft[t]
              n == Occurrences(f.stages, "record")
          IN  /\ n <= 1
              /\ (n = 1 => Downloaded(t))
              /\ (Downloaded(t) /\ f.pc # "saveRead" => n = 1)
              /\ (Occurrences(f.stages, "extract") > 0 =>
                      n = 1 /\ Position(f.stages, "record") < Position(f.stages, "extract"))
    /\ (max_workers = 1 /\ ~logFault /\ \A u \in Tasks : ft[u].pc # "saveDump") =>
          \A t \in Tasks :
              Occurrences(log, t) =
                  IF Downloaded(t) /\ ft[t].pc \notin {"saveRead", "saveOpen"}
                  THEN 1 ELSE 0

\* C2 witness: a task whose extraction failed after its download, ended, with
\* its record in the log
C2_Witness ==
    \E t \in Tasks :
        /\ Ended(t) /\ "extract" \in ft[t].badStages
        /\ Occurrences(ft[t].stages, "record") = 1
        /\ Occurrences(log, t) = 1

\* C3: no two tasks that are between making their workspace and their end
\* work in the same workspace directory.
C3_WorkspaceExclusive ==
    \A t, u \in Tasks : (t # u /\ InWorkspace(t) /\ InWorkspace(u)) => Ws(t) # Ws(u)

\* C4: when output_dir/<base> existed before the batch, a task for that base
\* name that is done has left it as it was and put its content in
\* output_dir/<base>_1.
C4_CollisionSuffixed ==
    \A t \in Tasks :
        (ft[t].outcome = "done" /\ root0[Final(t)].exists) =>
            /\ root[Final(t)] = root0[Final(t)]
            /\ root[Suffixed(base[t])].exists
            /\ root[Suffixed(base[t])].sub = {t}

\* C5: every task that is done has a directory of output_dir of its own that
\* holds its content and nothing else.
C5_FinalPlacementSafe ==
    \A t \in Tasks :
        ft[t].outcome = "done" =>
            \E n \in Names : root[n].exists /\ root[n].sub = {t}

\* C6: a task that made its workspace and has ended has left no workspace.
C6_WorkspaceHygiene ==
    \A t \in Tasks : (Ended(t) /\ ft[t].created) => ~root[Ws(t)].exists

C8_NeverRaises == \A t \in Tasks : ft[t].outcome # "raised"

\* C9: the call makes at most max_retries status requests and then returns;
\* when it has ended without the service having reported a terminal status,
\* it has returned None.
C9_PollReturns ==
    /\ sent <= max_retries
    /\ poll.requests = sent
    /\ (sent = max_retries => poll.state = "returned")
    /\ (poll.state # "loop" /\ firstTerm = NoResp =>
            poll.state = "returned" /\ poll.result = None)

\* C10: when the first terminal status reported is Success with a file id,
\* the call has returned that file id and made no request after it.
C10_SuccessReturnsFileId ==
    (firstTerm.status = "Success" /\ firstTerm.id # None) =>
        /\ poll.state = "returned"
        /\ poll.result = firstTerm.id
        /\ afterTerm = 0
        /\ sent <= max_retries

\* C10 witness: Success with a file id on the last attempt of the budget
C10_Witness ==
    /\ firstTerm.status = "Success"
    /\ firstTerm.id = "f2"
    /\ sent = max_retries
    /\ poll.result = "f2"

\* what the call says when it ends on a terminal status
SaidFor(status) ==
    CASE status = "Failed" -> "failed"
      [] status = "Expired" -> "expired"
      [] OTHER -> "none"

\* what a caller and the service can observe of a call
Observable(st) == <<st.state, st.result, st.said, st.requests, st.waited>>

\* C11: when the first terminal status reported is Failed or Expired, the
\* call has returned None with the message of that status, the response was
\* the last request, and no sleep followed it (the sleeps are those between
\* the requests before it).
C11_FailedExpiredEndPoll ==
    firstTerm.status \in {"Failed", "Expired"} =>
        /\ poll.state = "returned"
        /\ poll.result = None
        /\ poll.said = SaidFor(firstTerm.status)
        /\ afterTerm = 0
        /\ last = firstTerm
        /\ poll.waited = retry_delay_seconds * (sent - 1)

\* C11 witness: Expired reported in the middle of the budget
C11_Witness ==
    /\ firstTerm.status = "Expired"
    /\ sent > 1 /\ sent < max_retries
    /\ poll.said = "expired"

\* C12: after a timeout, another exception or a non-zero application code
\* the call has used exactly one attempt per request and slept once per
\* request, and goes on unless the budget is used up; used up, it ends as
\* it does for a job that stayed in processing. A terminal status reported
\* after such failures is mapped as ever, and the call never ends with a
\* message other than failed, expired or exhausted.
C12_TransientAbsorbed ==
    /\ (last # NoResp /\ Transient(last)) =>
          /\ poll.i = sent
          /\ poll.requests = sent
          /\ poll.waited = retry_delay_seconds * sent
          /\ IF sent < max_retries
             THEN poll.state = "loop" /\ poll.said = "none"
             ELSE Observable(poll) = Observable(get_task_status(StaysProcessing))
    /\ (seen # {} /\ firstTerm # NoResp) =>
          /\ poll.state = "returned"
          /\ poll.result = (IF firstTerm.status = "Success" THEN firstTerm.id ELSE None)
          /\ poll.said = SaidFor(firstTerm.status)
    /\ poll.said \in {"none", "failed", "expired", "exhausted"}

\* C12 witness: a timeout, an exception and a non-zero code, then Success
C12_Witness ==
    /\ seen = {"timeout", "error", "code"}
    /\ firstTerm.status = "Success"
    /\ firstTerm.id # None
    /\ poll.result = firstTerm.id

\* C13: while another request can follow, the call has slept once for every
\* request made, so a sleep lies between any two consecutive requests; at
\* every moment at most the latest request is not yet followed by a sleep.
C13_SleepBetweenRequests ==
    /\ poll.state = "loop" => poll.waited = retry_delay_seconds * sent
    /\ poll.waited >= retry_delay_seconds * (sent - 1)
    /\ poll.requests = sent

\* C13 witness: every path of the loop taken, and the loop still running
C13_Witness ==
    /\ seen = {"timeout", "error", "code"}
    /\ last = Processing
    /\ poll.state = "loop"
    /\ poll.waited = retry_delay_seconds * sent

\* the task is the only one of the batch with its base name
AloneWithBase(t) == \A u \in Tasks \ {t} : base[u] # base[t]

\* C14: a task whose poll met Success without a file id has ended as
\* skipped with the poll as its last step: it made no workspace, started no
\* metadata lookup or download, has no record in the log, and (no other
\* task sharing its names) left its workspace and final paths as they were.
C14_SuccessWithoutIdSkips ==
    \A t \in Tasks :
        ft[t].polled = "noid" =>
            /\ ft[t].pc = "ended"
            /\ ft[t].outcome = "skipped"
            /\ ft[t].stages = <<"upload", "submit", "poll">>
            /\ ft[t].badStages = {"poll"}
            /\ ~ft[t].created
            /\ Occurrences(log, t) = 0
            /\ AloneWithBase(t) =>
                   /\ root[Ws(t)] = root0[Ws(t)]
                   /\ root[Final(t)] = root0[Final(t)]

\* C14 witness: such a task in a finished batch that began with stale entries
C14_Witness ==
    \E t \in Tasks :
        /\ ft[t].polled = "noid"
        /\ ft[t].outcome = "skipped"
        /\ batch = "done"
        /\ root0[Ws(t)].exists

\* C15: a task whose submit request met a timeout, another exception, a
\* non-zero application code or a body without task id has ended as skipped
\* with that one submit as its last step: no second submit, no poll (so no
\* status request), no workspace.
C15_SubmitFailureSkips ==
    \A t \in Tasks :
        ft[t].submitted \in {"timeout", "error", "code", "noid"} =>
            /\ ft[t].pc = "ended"
            /\ ft[t].outcome = "skipped"
            /\ ft[t].stages = <<"upload", "submit">>
            /\ ft[t].badStages = {"submit"}
            /\ ft[t].polled = "none"
            /\ ~ft[t].created

\* C15 witness: one task skipped on a body without task id, another on a
\* non-zero application code
C15_Witness ==
    \E t, u \in Tasks :
        /\ ft[t].submitted = "noid" /\ ft[t].outcome = "skipped"
        /\ ft[u].submitted = "code" /\ ft[u].outcome = "skipped"

Started(t) == ft[t].pc # "queued"

\* C16: the tasks that have started and not ended are never more than
\* max_workers; equivalently a further task has started only for each task
\* that ended beyond the first max_workers.
C16_ConcurrencyBounded ==
    /\ Cardinality({t \in Tasks : Running(t)}) <= max_workers
    /\ Cardinality({t \in Tasks : Started(t)}) <=
           Cardinality({t \in Tasks : Ended(t)}) + max_workers

\* C16 witness: one worker; the second request runs after the first ended
C16_Witness ==
    /\ max_workers = 1
    /\ Ended(1)
    /\ Running(2)

\* C17: the summary is emitted only when every task has ended, a running
\* batch always gets there whatever its tasks meet, and once emitted it is
\* not emitted again and no task moves.
C17_AllAttempted ==
    /\ [](batch = "done" => \A t \in 1..nfiles : Ended(t))
    /\ (batch = "running" ~> batch = "done")
    /\ [][batch = "done" => (batch' = "done" /\ ft' = ft)]_vars

\* C17 witness: the batch is complete, its first task ended by an exception
\* and its second task is done
C17_Witness ==
    /\ batch = "done"
    /\ ft[1].outcome = "raised"
    /\ ft[2].outcome = "done"

\* C18: an aborted batch found no output_dir and made none, started no
\* task, made no request and wrote nothing; and no task has started, nor is
\* the batch running, without output_dir existing.
C18_RootCreationGate ==
    /\ batch = "aborted" =>
          /\ ~rootExists
          /\ \A t \in Tasks : ft[t] = NewTask
          /\ log = log0
          /\ root = root0
    /\ (batch = "running" \/ \E t \in Tasks : Started(t)) => rootExists

\* C18 witness: the batch aborted
C18_Witness == batch = "aborted" /\ ~rootExists

\* C19: when the batch of the scenario is complete, A and C each have their
\* final directory with their own content, B has neither a final directory
\* nor a workspace, no workspace of A or C is left, and the log has exactly
\* two entries, one of A and one of C.
C19_EndToEnd ==
    batch = "done" =>
        /\ \A t \in 1..nfiles :
              IF JobFails(t)
              THEN ~root[Final(t)].exists /\ ft[t].outcome = "skipped"
              ELSE root[Final(t)].exists /\ root[Final(t)].sub = {t}
                   /\ ft[t].outcome = "done"
        /\ \A t \in 1..nfiles : ~root[Ws(t)].exists
        /\ Len(log) = 2
        /\ \A t \in 1..nfiles : Occurrences(log, t) = (IF JobFails(t) THEN 0 ELSE 1)

\* the metadata lookup gave a download URL and save_dir exists or was made
StreamTried(c) ==
    /\ c.meta.kind = "body" /\ c.meta.code = 0 /\ c.meta.id # None
    /\ (c.dir.exists \/ c.mk)

Extracting(c) ==
    /\ c.phase = "returned"
    /\ Archive(c.dir, c.out) # {}
    /\ c.kind \notin {"corrupt", "ioerror"}

\* C21: when extraction leaves no top-level directory but a loose file, and
\* no filesystem call fails, extract_and_rename returns extract_dir itself and
\* has renamed or moved nothing.
C21_LooseFilesRoot ==
    (/\ Extracting(ex)
     /\ ex.kind = "loose"
     /\ ex.pick = NoDir
     /\ ex.fault = "none")
        => /\ ex.res.path = "workdir"
           /\ ex.res.dir.raw = ex.dir.raw
           /\ ex.res.dir.sub = ex.dir.sub

\* extract_dir without what earlier runs left in it
Clean(d) == [d EXCEPT !.raw = {}, !.sub = {}]

\* the content a run on the clean extract_dir leaves at extract_dir/new_dir_name
CleanContent(c) ==
    {extract_and_rename(Clean(c.dir), c.out, c.kind, c.fault, p).dir.sub :
         p \in Picks(Clean(c.dir), c.out, c.kind)}

\* C22: a run on an extract_dir that holds a stale extract_dir/new_dir_name
\* leaves at that path the content a run on the clean extract_dir leaves,
\* whichever directory os.listdir puts first.
C22_StaleTargetReplaced ==
    (/\ Extracting(ex)
     /\ ex.dir.sub # {}
     /\ ex.dir.raw = {}
     /\ ex.fault = "none")
        => ex.res.dir.sub \in CleanContent(ex)

\* C23: when the archive holds one or more top-level directories and
\* extract_and_rename succeeds, it returns extract_dir/new_dir_name and that
\* directory holds the content of the archive's directory; with two
\* directories in the archive it holds the content of the one listed first
\* and the other directory is still in extract_dir.
C23_TopLevelDirRenamed ==
    (/\ Extracting(ex)
     /\ ex.kind \in {"onedir", "named", "twodirs"}
     /\ ex.res.ok)
        => /\ ex.res.path = "target"
           /\ IF ex.kind = "twodirs"
              THEN /\ ex.res.dir.sub = {ex.pick.token}
                   /\ ex.res.dir.sub \subseteq Archive(ex.dir, ex.out) \cup {Second}
                   /\ (Archive(ex.dir, ex.out) \cup {Second}) \ ex.res.dir.sub
                          \subseteq ex.res.dir.raw
              ELSE ex.res.dir.sub = Archive(ex.dir, ex.out)

\* C24: extract_and_rename returns no path when the archive is missing,
\* cannot be opened or cannot be read, and when it holds nothing, wherever
\* the archive is stored.
C24_UnreadableOrEmptyFails ==
    (/\ ex.phase = "returned"
     /\ \/ Archive(ex.dir, ex.out) = {}
        \/ ex.kind \in {"corrupt", "ioerror", "empty"})
        => ~ex.res.ok /\ ex.res.path = None

\* the archive file after the call
TarLeft(c) == IF c.out = {} THEN c.res.dir.tar ELSE IF c.res.deleted THEN {} ELSE c.out

\* C25: after a successful call the archive file is gone unless its deletion
\* failed; when the deletion fails the call returns the path it returns when
\* the deletion succeeds; a call that returns no path or raises has left the
\* archive file as it was.
C25_ArchiveDeletedOnSuccess ==
    ex.phase = "returned" =>
        /\ (ex.res.ok /\ ex.fault # "remove") => TarLeft(ex) = {}
        /\ (ex.res.ok /\ ex.fault = "remove") =>
               /\ TarLeft(ex) = Archive(ex.dir, ex.out)
               /\ ex.res.path =
                      extract_and_rename(ex.dir, ex.out, ex.kind, "none", ex.pick).path
        /\ ~ex.res.ok => (~ex.res.deleted /\ TarLeft(ex) = Archive(ex.dir, ex.out))

\* C25 witness: the deletion of the archive failed after the rename, the call
\* returned the path, and the archive is still in extract_dir
C25_Witness ==
    /\ Extracting(ex)
    /\ ex.fault = "remove"
    /\ ex.out = {}
    /\ ex.pick # TargetDir
    /\ ex.res.path = "target"
    /\ ex.res.dir.tar # {}

\* the entries the conversion can use, in input order
RECURSIVE Usable(_)
Usable(entries) ==
    IF entries = <<>> THEN <<>>
    ELSE IF /\ Head(entries).obj
            /\ \E t \in {Head(entries).text, Head(entries).sentence} : t # None
            /\ \E b \in {Head(entries).time_begin, Head(entries).begin_time} :
                   b.is = "number"
            /\ \E e \in {Head(entries).time_end, Head(entries).end_time} :
                   e.is = "number"
            /\ BeginOf(Head(entries)).is = "number"
            /\ EndOf(Head(entries)).is = "number"
         THEN <<Head(entries)>> \o Usable(Tail(entries))
         ELSE Usable(Tail(entries))

\* one block of the file as the specification gives it: index, times, text,
\* blank line
Block(i, e) == Str(i) \o "\n" \o CueTimes(e) \o "\n" \o TextOf(e) \o "\n" \o "\n"
RECURSIVE Blocks(_, _)
Blocks(entries, i) ==
    IF entries = <<>> THEN ""
    ELSE Block(i, Head(entries)) \o Blocks(Tail(entries), i + 1)

\* C26: the file json_to_srt writes is the concatenation of one block per
\* usable record, every block ending with a blank line, the last one too; for
\* the records (Hi, 0, 1500) and (Bye, 1500, 3000) it is the string of the
\* specification.
C26_BlocksEndBlank ==
    (srt.phase = "returned" /\ srt.res.ret) =>
        /\ srt.res.file = Blocks(Usable(srt.data.entries), 1)
        /\ srt.data.entries = <<Hi, Bye>> =>
               srt.res.file = "1\n00:00:00,000 --> 00:00:01,500\nHi\n\n"
                                  \o "2\n00:00:01,500 --> 00:00:03,000\nBye\n\n"

\* the offset a timestamp denotes, in milliseconds
Denoted(f) == ((f.hours * 60 + f.minutes) * 60 + f.secs) * 1000 + f.millis

\* C27: the timestamp of a non-negative offset has milliseconds in 0..999,
\* seconds and minutes in 0..59, and denotes a millisecond nearest to the
\* offset; 59.9996 s gives 00:01:00,000.
C27_TimestampCarries ==
    tc.phase = "returned" =>
        /\ tc.fields.millis \in 0..999
        /\ tc.fields.secs \in 0..59
        /\ tc.fields.minutes \in 0..59
        /\ 2 * (Denoted(tc.fields) * TicksPerMs - tc.x) \in (0 - TicksPerMs)..TicksPerMs
        /\ tc.text = FormatSrtTime(tc.fields)
        /\ tc.x = 599996 => tc.text = "00:01:00,000"

\* C27 witness: 1:59:59.9996 carries through seconds and minutes into hours
C27_Witness ==
    /\ tc.phase = "returned"
    /\ tc.x = ((3600 + 59 * 60 + 59) * TicksPerSecond) + 9996
    /\ tc.text = "02:00:00,000"

\* the lines json_to_srt joined, recovered from what the call was given
Written(c) == Cues(c.data.entries, 1)

\* C28: when json_to_srt returns normally, the cues it collected are the
\* usable records in input order, the i-th of them numbered i; every other
\* record is left out and takes no number.
C28_CuesNumbered ==
    (srt.phase = "returned" /\ ~srt.res.raised /\ SubtitleList(srt.data).found) =>
        LET u == Usable(srt.data.entries)
            w == Written(srt)
        IN  /\ Len(w) = 4 * Len(u)
            /\ \A i \in 1..Len(u) :
                   /\ w[4 * i - 3] = Str(i)
                   /\ w[4 * i - 2] = CueTimes(u[i])
                   /\ w[4 * i - 1] = TextOf(u[i])
                   /\ w[4 * i] = ""
            /\ (srt.res.ret => srt.res.file = JoinLines(w))
            /\ (Len(u) > 0 /\ srt.writable) => srt.res.ret

\* C28 witness: a later cue before an earlier one with a skipped record
\* between them, written as cues 1 and 2
C28_Witness ==
    /\ srt.phase = "returned"
    /\ srt.data.entries = <<Bye, NoEnd, Hi>>
    /\ srt.res.ret
    /\ srt.res.file = "1\n00:00:01,500 --> 00:00:03,000\nBye\n\n"
                          \o "2\n00:00:00,000 --> 00:00:01,500\nHi\n"

\* the metadata files that give no subtitle by the claim: none, no JSON, an
\* empty list, no usable record
NoSubtitle == {"missing", "unparsable", "empty", "unusable"}

\* C29: a task that has run its subtitle step on a missing or unparsable
\* metadata file, an empty list or a list without a usable record has no .srt
\* file and a failed subtitle step, was not ended by it and has gone on to
\* the final placement.
C29_SubtitleFailureNotFatal ==
    \A t \in 1..nfiles :
        ("subtitle" \in ft[t].badStages \cup ft[t].okStages /\ titles.file \in NoSubtitle)
            => /\ titles.srt = None
               /\ "subtitle" \in ft[t].badStages
               /\ ft[t].outcome # "raised"
               /\ \/ ft[t].pc \in {"placeCheck", "placeMove"}
                  \/ /\ ft[t].pc = "ended"
                     /\ Position(ft[t].stages, "subtitle") < Len(ft[t].stages)
                     /\ ft[t].stages[Position(ft[t].stages, "subtitle") + 1] = "move"

\* C29 witness: the batch is over and the task is done although its metadata
\* file held no usable record
C29_Witness ==
    /\ batch = "done"
    /\ titles.file = "unusable"
    /\ titles.srt = None
    /\ ft[1].outcome = "done"
    /\ "subtitle" \in ft[1].badStages
    /\ root[Final(1)].sub = {1}

\* a is the beginning of b
IsPrefix(a, b) == Len(a) <= Len(b) /\ SubSeq(b, 1, Len(a)) = a

\* C30: an append replaces the array in succeed.json by that array with one
\* entry added at its end: what the file holds when the append opens it for
\* writing is what the append read, and what the file holds after the dump
\* is that array followed by the new entry.
C30_AppendOnly ==
    [][\A t \in Tasks :
           /\ (ft[t].pc = "saveOpen" /\ ft'[t].pc = "saveDump")
                  => log = ft[t].recs
           /\ (ft[t].pc = "saveDump" /\ ft'[t].pc = "extract")
                  => (IsPrefix(log, log') /\ log' = Append(ft[t].recs, t))]_vars


(***************************************************************************)
(* The submit payload                                                      *)
(***************************************************************************)
\* the call of create_speech_task has put its payload on the wire
Sent == req.phase = "sent"

\* C31: the payload carries speed, vol and pitch unchanged. For every speed
\* in [0.5, 2.0], vol in [1, 10] and integer pitch in [-12, 12], the values in
\* voice_setting equal the request's values as numbers; speed and vol go as
\* floats and pitch as an integer, and nothing is clamped or rescaled.
C31_SettingsUnchanged ==
    Sent =>
        /\ req.payload.speed = Real(req.speed.v)
        /\ req.payload.vol = Real(req.vol.v)
        /\ req.payload.pitch = [type |-> "int", v |-> req.pitch.v]

\* the ends of the three ranges went through as they were
C31_Witness ==
    /\ Sent
    /\ req.speed = Real(5) /\ req.vol = Whole(10) /\ req.pitch = Whole(-12)
    /\ req.payload.speed.v = 5 /\ req.payload.vol.v = 100 /\ req.payload.pitch.v = -120

\* C32: voice_setting has the key "emotion" if and only if the request's
\* emotion is not the default value. For the default emotion the key is
\* omitted (not sent as null or as the string "default"), and every other
\* emotion is sent unchanged.
C32_EmotionOnlyWhenSet ==
    Sent =>
        /\ ("emotion" \in DOMAIN req.payload) <=> (req.emotion # "default")
        /\ "emotion" \in DOMAIN req.payload => req.payload["emotion"] = req.emotion

\* a request with the default emotion went out with the four other keys only
C32_Witness ==
    /\ Sent
    /\ req.emotion = "default"
    /\ DOMAIN req.payload = {"voice_id", "speed", "vol", "pitch"}


(***************************************************************************)
(* Schema tolerance of json_to_srt                                         *)
(***************************************************************************)
\* the record with every value under its primary name
Renamed(e) ==
    [e EXCEPT !.text = IF e.text # None THEN e.text ELSE e.sentence,
              !.sentence = None,
              !.time_begin = IF e.time_begin # NoValue THEN e.time_begin ELSE e.begin_time,
              !.begin_time = NoValue,
              !.time_end = IF e.time_end # NoValue THEN e.time_end ELSE e.end_time,
              !.end_time = NoValue]

\* C33: json_to_srt converts a bare list of records, and a dict that holds
\* the list under sentences, segments, subtitles, result_list or
\* sentence_list gives the same result as the bare list; a record that uses
\* the alternate names sentence, begin_time, end_time yields the same cue as
\* the record with the names text, time_begin, time_end.
C33_SchemaTolerance ==
    srt.phase = "returned" =>
        /\ srt.data.shape = "object" /\ srt.data.key \in {"sentences", "segments",
                                         "subtitles", "result_list", "sentence_list"}
               => srt.res = json_to_srt(Titles("list", srt.data.entries), srt.writable)
        /\ \A i \in 1..Len(srt.data.entries) :
               Cues(<<srt.data.entries[i]>>, 1) = Cues(<<Renamed(srt.data.entries[i])>>, 1)

\* a list under result_list whose records use the alternate names was written
C33_Witness ==
    /\ srt.phase = "returned"
    /\ srt.data = Wrapped("result_list", <<Aliased, HalfAliased>>)
    /\ srt.res.ret
    /\ srt.res.file = JoinLines(Cues(<<Renamed(Aliased), Renamed(HalfAliased)>>, 1))


(***************************************************************************)
(* A task skipped before the download                                      *)
(***************************************************************************)
\* the steps before the workspace is made
EarlyStages == {"upload", "submit", "poll"}

\* the task returned early because its upload, its submission or its poll
\* gave nothing
EarlySkipped(t) == ft[t].outcome = "skipped" /\ ft[t].badStages \cap EarlyStages # {}

\* C34: a task that is skipped before the download stage (upload failure,
\* submission failure, poll without an artifact reference) leaves the local
\* state as it was: it made no workspace, ran no later step, has no record
\* in the log, and none of its steps changed output_dir, anything under it,
\* or the log file.
C34_EarlySkipLeavesNothing ==
    /\ [](\A t \in Tasks :
              EarlySkipped(t) =>
                  /\ ~ft[t].created
                  /\ \A i \in 1..Len(ft[t].stages) : ft[t].stages[i] \in EarlyStages
                  /\ Occurrences(log, t) = 0)
    /\ [][\A t \in Tasks :
              (ft[t].pc \in EarlyStages /\ ft'[t] # ft[t]) =>
                  /\ root' = root
                  /\ rootExists' = rootExists
                  /\ log' = log
                  /\ logFault' = logFault]_vars

\* one task skipped at its upload, another at its poll, in a finished batch
\* whose output_dir and log are as the batch found them
C34_Witness ==
    /\ batch = "done"
    /\ \E t, u \in Tasks :
           /\ EarlySkipped(t) /\ ft[t].stages = <<"upload">>
           /\ EarlySkipped(u) /\ ft[u].stages = <<"upload", "submit", "poll">>
    /\ root = root0
    /\ log = log0


(***************************************************************************)
(* Termination                                                             *)
(***************************************************************************)
\* the calls a task makes at most once
OnceStages == {"upload", "submit", "poll", "metadata", "download"}

\* C35: every task terminates. Each call returning, process_txt_file makes
\* at most one upload, one submission, one poll (of at most 100 status
\* requests, see C9), one metadata lookup and one download, and a task that
\* has started reaches Done or Skipped; so a running batch reaches its
\* summary line.
C35_TaskTerminates ==
    /\ [](\A t \in Tasks : \A g \in OnceStages : Occurrences(ft[t].stages, g) <= 1)
    /\ \A t \in Tasks :
           Started(t) ~> (Ended(t) /\ ft[t].outcome \in {"done", "skipped"})
    /\ batch = "running" ~> batch = "done"


(***************************************************************************)
(* A success record that cannot be persisted                               *)
(***************************************************************************)
SaveSteps == {"saveRead", "saveOpen", "saveDump"}

\* C36: a failure to persist the success record (the log unreadable, corrupt
\* or unwritable) stays inside save_success_record: no step of it ends the
\* task or raises into it, it touches nothing under output_dir, and the task
\* goes on to the extraction in the state it has after a successful append.
C36_RecordFailureSwallowed ==
    [][\A t \in Tasks :
           (ft[t].pc \in SaveSteps /\ ft'[t] # ft[t]) =>
               /\ ft'[t].outcome = "none"
               /\ ft'[t].pc \in SaveSteps \cup {"extract"}
               /\ ft'[t].pc = "extract" =>
                      ft'[t] = [ft[t] EXCEPT !.pc = "extract", !.recs = <<>>,
                                             !.stages = IF ft[t].pc = "saveRead"
                                                        THEN Append(@, "record") ELSE @]
               /\ root' = root
               /\ rootExists' = rootExists]_vars

\* the log could not be read or written and is as the batch found it, and a
\* task that reached the record step is done
C36_Witness ==
    /\ batch = "done"
    /\ logFault
    /\ log = log0
    /\ \E t \in Tasks :
           /\ ft[t].outcome = "done"
           /\ Occurrences(ft[t].stages, "record") = 1
           /\ Occurrences(log, t) = 0


(***************************************************************************)
(* One batch at a time                                                     *)
(***************************************************************************)
\* C37: the window runs at most one batch at a time. From the start of the
\* processing thread until on_processing_finished has run the start button
\* is disabled, so no second thread is started; when the batch has ended,
\* also by an exception of process_list_of_txt_files, on_processing_finished
\* is scheduled, and a disabled button is enabled again.
C37_OneBatchAtATime ==
    /\ [](gui.threads <= 1)
    /\ [](gui.threads + gui.pending > 0 => ~gui.button)
    /\ gui.threads > 0 ~> gui.pending > 0
    /\ ~gui.button ~> gui.button

\* the second batch was ended by an exception and the button is enabled again
C37_Witness ==
    /\ gui.launched = 2
    /\ gui.raised
    /\ gui.shown = "finished"
    /\ gui.button
    /\ gui.threads = 0
    /\ batch = "running"

====
